---- MODULE Spec2Model ----
(***************************************************************************)
(* Model of webtopy.py: a Flask attendance tracker over one SQLite table.  *)
(* Strings (names, emails, registration numbers, dates) are sequences of   *)
(* characters, each character a one-element string token; the non-ASCII    *)
(* code points used by the inputs are written "U+00C9" (E acute, capital), *)
(* "U+00E9" (e acute, small) and "U+0301" (combining acute accent).        *)
(***************************************************************************)
EXTENDS Integers, Sequences, FiniteSets, TLC

(* users: the rows of the user table; now: the clock's year and month;   *)
(* issued: the numbers handed out so far; calc: the arguments and        *)
(* results of the status evaluator's functions; procs: the server's      *)
(* threads, each with the request it serves, its position in the handler *)
(* and the handler's local variables.                                    *)
VARIABLES users, now, issued, calc, procs

vars == <<users, now, issued, calc, procs>>

(* ------------------------------ bounds --------------------------------- *)
MaxUsers == 2
MaxAttendance == 1
MaxTicks == 1
MaxSuffix == 2
MaxLeaves == 3
MaxWorkingDays == 23
MaxLeavesTaken == 24
MaxId == 3
MaxThreads == 2
MaxThreadedUsers == 1
MaxStored == 3
MaxRecognizeProcs == 3
MinYear == 2000
MaxYear == 2399

(* --------------------------- characters -------------------------------- *)
Lower == <<"a","b","c","d","e","f","g","h","i","j","k","l","m",
           "n","o","p","q","r","s","t","u","v","w","x","y","z">>
Upper == <<"A","B","C","D","E","F","G","H","I","J","K","L","M",
           "N","O","P","Q","R","S","T","U","V","W","X","Y","Z">>
Digits == <<"0","1","2","3","4","5","6","7","8","9">>

Range(f) == { f[i] : i \in DOMAIN f }
IndexOf(seq, c) == CHOOSE i \in DOMAIN seq : seq[i] = c

UpperSet == Range(Upper)
LowerSet == Range(Lower)
DigitSet == Range(Digits)
AsciiSet == LowerSet \cup UpperSet \cup DigitSet \cup {" ", "-", ".", "@", "/"}

ToLower == [c \in UpperSet |-> Lower[IndexOf(Upper, c)]]
ToUpper == [c \in LowerSet |-> Upper[IndexOf(Lower, c)]]
DigitValue == [c \in DigitSet |-> IndexOf(Digits, c) - 1]

IsSpace(c) == c = " "
IsDigit(c) == c \in DigitSet
IsAsciiLower(c) == c \in LowerSet
IsAscii(c) == c \in AsciiSet

(* str.lower() of Python: Unicode aware *)
PyLowerChar(c) ==
    IF c \in UpperSet THEN ToLower[c]
    ELSE IF c = "U+00C9" THEN "U+00E9"
    ELSE c

(* lower() of SQLite (db.func.lower): folds the ASCII letters only *)
SqlLowerChar(c) == IF c \in UpperSet THEN ToLower[c] ELSE c

(* str.upper() of Python *)
PyUpperChar(c) ==
    IF c \in LowerSet THEN ToUpper[c]
    ELSE IF c = "U+00E9" THEN "U+00C9"
    ELSE c

PyLower(s) == [i \in DOMAIN s |-> PyLowerChar(s[i])]
SqlLower(s) == [i \in DOMAIN s |-> SqlLowerChar(s[i])]
PyUpper(s) == [i \in DOMAIN s |-> PyUpperChar(s[i])]

(* unicodedata.normalize('NFD', .) on one character *)
NFDChar(c) ==
    IF c = "U+00E9" THEN <<"e", "U+0301">>
    ELSE IF c = "U+00C9" THEN <<"E", "U+0301">>
    ELSE <<c>>

RECURSIVE NFD(_)
NFD(s) == IF s = <<>> THEN <<>> ELSE NFDChar(Head(s)) \o NFD(Tail(s))

(* .encode('ascii', 'ignore').decode('utf-8') *)
AsciiIgnore(s) == SelectSeq(s, IsAscii)

(* re.sub(r'[^a-z\s]', '', .) *)
KeepLettersAndSpaces(s) == SelectSeq(s, LAMBDA c : IsAsciiLower(c) \/ IsSpace(c))

(* str.strip() *)
RECURSIVE LStrip(_)
LStrip(s) == IF s # <<>> /\ IsSpace(Head(s)) THEN LStrip(Tail(s)) ELSE s

RECURSIVE RStrip(_)
RStrip(s) ==
    IF s # <<>> /\ IsSpace(s[Len(s)]) THEN RStrip(SubSeq(s, 1, Len(s) - 1)) ELSE s

Strip(s) == RStrip(LStrip(s))

(* str.split(): split on runs of whitespace, no empty tokens *)
RECURSIVE SplitWs(_, _)
SplitWs(s, cur) ==
    IF s = <<>> THEN (IF cur = <<>> THEN <<>> ELSE <<cur>>)
    ELSE IF IsSpace(Head(s))
         THEN (IF cur = <<>> THEN <<>> ELSE <<cur>>) \o SplitWs(Tail(s), <<>>)
         ELSE SplitWs(Tail(s), Append(cur, Head(s)))

Split(s) == SplitWs(s, <<>>)

(* str.split(sep): split on every separator, empty tokens kept *)
RECURSIVE SplitSep(_, _, _)
SplitSep(s, sep, cur) ==
    IF s = <<>> THEN <<cur>>
    ELSE IF Head(s) = sep
         THEN <<cur>> \o SplitSep(Tail(s), sep, <<>>)
         ELSE SplitSep(Tail(s), sep, Append(cur, Head(s)))

SplitOn(s, sep) == SplitSep(s, sep, <<>>)

(* str(n) for n >= 0 *)
RECURSIVE ToStr(_)
ToStr(n) ==
    IF n < 10 THEN <<Digits[n + 1]>>
    ELSE Append(ToStr(n \div 10), Digits[(n % 10) + 1])

(* str.zfill(width) *)
RECURSIVE ZFill(_, _)
ZFill(s, width) == IF Len(s) >= width THEN s ELSE ZFill(<<"0">> \o s, width)

AllDigits(s) == s # <<>> /\ \A i \in DOMAIN s : IsDigit(s[i])

(* the value of a string of decimal digits *)
RECURSIVE DigitsValue(_)
DigitsValue(s) ==
    IF s = <<>> THEN 0
    ELSE 10 * DigitsValue(SubSeq(s, 1, Len(s) - 1)) + DigitValue[s[Len(s)]]

(* int(s): whitespace around the digits is ignored; -1 stands for *)
(* ValueError                                                     *)
ParseInt(s) == IF AllDigits(Strip(s)) THEN DigitsValue(Strip(s)) ELSE -1

StartsWith(s, p) == Len(s) >= Len(p) /\ SubSeq(s, 1, Len(p)) = p

Max(S) == CHOOSE x \in S : \A y \in S : y <= x

(* ------------------------------ calendar ------------------------------- *)
IsLeap(y) == (y % 4 = 0) /\ ((y % 100 # 0) \/ (y % 400 = 0))

(* calendar.monthrange(year, month)[1] *)
DaysInMonth(y, m) ==
    IF m = 2 THEN (IF IsLeap(y) THEN 29 ELSE 28)
    ELSE IF m \in {4, 6, 9, 11} THEN 30 ELSE 31

DaysBeforeYear(y) ==
    (y - 1) * 365 + ((y - 1) \div 4) - ((y - 1) \div 100) + ((y - 1) \div 400)

RECURSIVE DaysBeforeMonth(_, _)
DaysBeforeMonth(y, m) ==
    IF m = 1 THEN 0 ELSE DaysBeforeMonth(y, m - 1) + DaysInMonth(y, m - 1)

(* date(year, month, day).weekday(): Monday = 0 ... Sunday = 6 *)
Weekday(y, m, d) == (DaysBeforeYear(y) + DaysBeforeMonth(y, m) + d + 6) % 7

(* a count that takes Saturday for a working day *)
get_days_but_sundays_in_month(year, month) ==
    Cardinality({ day \in 1..DaysInMonth(year, month) : Weekday(year, month, day) < 6 })

get_working_days_in_month(year, month) ==
    Cardinality({ day \in 1..DaysInMonth(year, month) : Weekday(year, month, day) < 5 })

(* f"{year}-{month}": the month is not zero padded *)
MonthTag(year, month) == ToStr(year) \o <<"-">> \o ToStr(month)

(* what %d of strptime matches: one or two digits, or a space and one *)
(* digit that is not 0                                                *)
DayField(s) ==
    \/ AllDigits(s) /\ Len(s) \in {1, 2}
    \/ Len(s) = 2 /\ IsSpace(s[1]) /\ IsDigit(s[2]) /\ s[2] # "0"

(* datetime.strptime(dob_str, '%Y-%m-%d'): does it parse *)
ValidDate(s) ==
    LET parts == SplitOn(s, "-") IN
    /\ Len(parts) = 3
    /\ AllDigits(parts[1]) /\ Len(parts[1]) = 4 /\ ParseInt(parts[1]) >= 1
    /\ AllDigits(parts[2]) /\ Len(parts[2]) \in {1, 2} /\ ParseInt(parts[2]) \in 1..12
    /\ DayField(parts[3])
    /\ ParseInt(parts[3]) \in 1..DaysInMonth(ParseInt(parts[1]), ParseInt(parts[2]))

(* the date it parses to *)
DateOf(s) ==
    LET parts == SplitOn(s, "-") IN
    [year |-> ParseInt(parts[1]), month |-> ParseInt(parts[2]), day |-> ParseInt(parts[3])]

(* ------------------------- identity generator -------------------------- *)
NoneValue == <<"None">>

Code == <<"X", "Y", "Z">>

(* f"{year}-{code}-" *)
RegPrefix(year) == ToStr(year) \o <<"-">> \o Code \o <<"-">>

(* f"{year}-{code}-{str(next_suffix).zfill(4)}" *)
FormatRegNo(year, suffix) == RegPrefix(year) \o ZFill(ToStr(suffix), 4)

(* User.reg_no.like(f"{year}-{code}-%"): LIKE of SQLite ignores ASCII case *)
LikePrefix(s, p) == StartsWith(SqlLower(s), SqlLower(p))

(* int(u.reg_no.split('-')[2]); -1 when the try block raises *)
SuffixOf(reg_no) ==
    LET parts == SplitOn(reg_no, "-") IN
    IF Len(parts) < 3 THEN -1 ELSE ParseInt(parts[3])

(* a generator that forgets the + 1 *)
generate_same_reg_no(us, year) ==
    LET matching == { id \in DOMAIN us : LikePrefix(us[id].reg_no, RegPrefix(year)) }
        max_suffix == Max({0} \cup { SuffixOf(us[id].reg_no) : id \in matching })
    IN  FormatRegNo(year, max_suffix)

generate_next_reg_no(us, year) ==
    LET matching == { id \in DOMAIN us : LikePrefix(us[id].reg_no, RegPrefix(year)) }
        max_suffix == Max({0} \cup { SuffixOf(us[id].reg_no) : id \in matching })
    IN  FormatRegNo(year, max_suffix + 1)

Company == <<"@", "c", "o", "m", "p", "a", "n", "y", ".", "c", "o", "m">>

(* the normalized tokens of a name *)
NameParts(name) ==
    Split(KeepLettersAndSpaces(AsciiIgnore(NFD(PyLower(Strip(name))))))

(* the local part before any counter *)
LocalPart(parts) ==
    IF Len(parts) = 1 THEN parts[1] ELSE parts[1] \o <<".">> \o parts[Len(parts)]

(* a loop that never looks at the stored addresses *)
EmailLoopNoCheck(email_candidate, counter, parts, existing_emails) == email_candidate

(* the while loop of generate_email *)
RECURSIVE EmailLoop(_, _, _, _)
EmailLoop(email_candidate, counter, parts, existing_emails) ==
    IF PyLower(email_candidate) \in existing_emails
    THEN EmailLoop(LocalPart(parts) \o ToStr(counter) \o Company,
                   counter + 1, parts, existing_emails)
    ELSE email_candidate

(* a generator whose counter starts at 2 *)
generate_email_from_two(name, us) ==
    IF name = <<>> THEN <<>>
    ELSE LET parts == NameParts(name)
             existing_emails == { PyLower(us[id].email) : id \in DOMAIN us }
         IN  IF Len(parts) = 0 THEN <<>>
             ELSE IF PyLower(LocalPart(parts) \o Company) \in existing_emails
                  THEN EmailLoop(LocalPart(parts) \o ToStr(2) \o Company, 3, parts,
                                 existing_emails)
                  ELSE LocalPart(parts) \o Company

generate_email(name, us) ==
    IF name = <<>> THEN <<>>
    ELSE LET parts == NameParts(name) IN
         IF Len(parts) = 0 THEN <<>>
         ELSE EmailLoop(LocalPart(parts) \o Company, 1, parts,
                        { PyLower(us[id].email) : id \in DOMAIN us })

(* ------------------------------ inputs --------------------------------- *)
NameAlBo == <<"A", "l", " ", "B", "o">>
NameAlBoDup == <<" ", "a", "L", " ", "b", "O", " ">>
NameAlCBo == <<"a", "l", " ", "C", " ", " ", "b", "o">>
NameOne == <<"1">>
NameTwo == <<"2">>
NameEl == <<"U+00C9", "l">>
NameElLower == <<"U+00E9", "l">>
NameBlank == <<" ">>

Names == { NameAlBo, NameAlBoDup, NameAlCBo, NameOne, NameTwo,
           NameEl, NameElLower, NameBlank }

DobGood == <<"2", "0", "0", "0", "-", "0", "2", "-", "2", "9">>
DobSpaceDay == <<"2", "0", "0", "0", "-", "0", "2", "-", " ", "9">>
DobBadDay == <<"2", "0", "0", "1", "-", "0", "2", "-", "2", "9">>
DobBadForm == <<"2", "9", "/", "0", "2", "/", "2", "0", "0", "0">>

GenderF == <<"F">>
FaceImg == <<"i", "m", "g">>

Form(name, dob, gender, face_image) ==
    [name |-> name, dob |-> dob, gender |-> gender, face_image |-> face_image]

(* every name with the other fields well formed, one of them with a day *)
(* written as a space and a digit, and one name with a date of birth    *)
(* that does not parse                                                  *)
RegisterInputs ==
    { Form(n, DobGood, GenderF, FaceImg) : n \in Names \ {NameAlCBo} }
      \cup { Form(NameAlCBo, DobSpaceDay, GenderF, FaceImg) }
      \cup { Form(NameEl, d, GenderF, FaceImg) : d \in {DobBadDay, DobBadForm} }

UnknownEmail == <<"n", "o">> \o Company

(* the addresses a status request is sent with *)
EmailInputs(us) ==
    { <<" ">> \o PyUpper(us[id].email) : id \in DOMAIN us } \cup { UnknownEmail, <<>> }

(* the registration numbers a delete request is sent with *)
RegNoInputs(us, year) ==
    { us[id].reg_no : id \in DOMAIN us } \cup { FormatRegNo(year, 1) }

(* -------------------------- requests, responses ------------------------ *)
NoReq == [op |-> "none", name |-> <<>>, dob |-> <<>>, gender |-> <<>>,
          face_image |-> <<>>, reg_no |-> <<>>, email |-> <<>>]

NoResp == [status |-> 0, error |-> "", message |-> "", recognized |-> FALSE, reg_no |-> <<>>,
           email |-> <<>>, name |-> <<>>, attendance_count |-> 0, leaves_taken |-> 0,
           percent_tenths |-> 0, messages |-> <<>>]

ErrorResp(status, error) == [NoResp EXCEPT !.status = status, !.error = error]

(* no function of the status evaluator has been applied *)
NoCalc == [fn |-> "none", year |-> 0, month |-> 0, working_days |-> 0, leaves_taken |-> 0,
           percent |-> [num |-> 0, den |-> 1], messages |-> <<>>]

(* ------------------------------- store --------------------------------- *)
(* The table is the sequence of its rows in the order of their ids, which *)
(* is the order in which a query returns them.                            *)
(* Query.first() on the rows at positions ids: the first position, 0 when *)
(* no row matches                                                        *)
First(ids) ==
    IF ids = {} THEN 0 ELSE CHOOSE id \in ids : \A other \in ids : id <= other

(* id = db.Column(db.Integer, primary_key=True): the rowid SQLite gives a *)
(* new row is one more than the largest rowid in the table                *)
NextId(us) == Max({0} \cup { us[i].id : i \in DOMAIN us }) + 1

(* the position of the row with a primary key, 0 when it is gone *)
RowOf(us, id) == First({ i \in DOMAIN us : us[i].id = id })

(* a table without unique indexes *)
NoUniqueViolation(us, user) == FALSE

(* unique=True on reg_no and on email *)
UniqueViolation(us, user) ==
    \E i \in DOMAIN us : us[i].reg_no = user.reg_no \/ us[i].email = user.email

(* db.session.add(user); db.session.commit() *)
Insert(us, user) == Append(us, [user EXCEPT !.id = NextId(us)])

(* db.session.delete(user); db.session.commit(): DELETE ... WHERE id = ? *)
Remove(us, id) == SelectSeq(us, LAMBDA u : u.id # id)

(* the UPDATE a commit flushes: the columns whose value in the session's  *)
(* object (new) differs from the value it was loaded with (old)           *)
WriteChanged(us, pos, old, new) ==
    [us EXCEPT ![pos] = [f \in DOMAIN old |-> IF new[f] # old[f] THEN new[f] ELSE @[f]]]

(* --------------------------- requests in flight ------------------------ *)
(* app.run(debug=True) serves each request in a thread of its own, with a *)
(* database session of its own. A handler is modelled one database round  *)
(* trip at a time: every query reads the table as it is at that moment,   *)
(* and every commit writes at once. A thread is the request it serves or  *)
(* served last (req), the response once the handler has returned (resp),  *)
(* its position in the handler (pc) and the handler's local variables:    *)
(* the generated email and reg_no, the id the next row would have got     *)
(* when the name was checked (seen), the row loaded into the session      *)
(* (loaded), what the handler read from the clock (year, month) and       *)
(* whether it took the branch of the rollover (rolled).                   *)
NoRow == [id |-> 0, reg_no |-> <<>>, name |-> <<>>,
          dob |-> [year |-> 0, month |-> 0, day |-> 0], gender |-> <<>>,
          email |-> <<>>, attendance_count |-> 0, leaves_taken |-> 0,
          last_leave_month |-> NoneValue, messages |-> <<>>, face_image |-> <<>>]

NoProc == [req |-> NoReq, resp |-> NoResp, pc |-> "done", email |-> <<>>, reg_no |-> <<>>,
           seen |-> 0, loaded |-> NoRow, year |-> 0, month |-> 0, rolled |-> FALSE]

Idle(p) == procs[p].pc = "done"

(* the handler of p returns *)
Finish(p, request, response) ==
    procs' = [procs EXCEPT ![p] = [NoProc EXCEPT !.req = request, !.resp = response]]

(* the handler of p goes on to its next round trip *)
Goto(p, pc) == procs' = [procs EXCEPT ![p].pc = pc]

InFlight(op) == { q \in DOMAIN procs : procs[q].req.op = op /\ procs[q].pc # "done" }

Init ==
    /\ users = <<>>
    /\ now = [year |-> 2024, month |-> 12]
    /\ issued = {}
    /\ calc = NoCalc
    /\ procs = <<NoProc>>

(* ------------------------------ /register ------------------------------ *)
(* a record created with one leave already taken *)
NewUserOnLeave(reg_no, name, dob, gender, email, face_image) ==
    [id |-> 0, reg_no |-> reg_no, name |-> name, dob |-> dob, gender |-> gender,
     email |-> email, attendance_count |-> 0, leaves_taken |-> 1,
     last_leave_month |-> NoneValue, messages |-> <<>>, face_image |-> face_image]

(* lines 123-134; the id is given by the insert *)
NewUser(reg_no, name, dob, gender, email, face_image) ==
    [id |-> 0, reg_no |-> reg_no, name |-> name, dob |-> dob, gender |-> gender,
     email |-> email, attendance_count |-> 0, leaves_taken |-> 0,
     last_leave_month |-> NoneValue, messages |-> <<>>, face_image |-> face_image]

(* a name check that finds nobody *)
NameNeverTaken(us, name) == FALSE

(* User.query.filter(db.func.lower(User.name) == name.lower()).first() *)
NameTaken(us, name) ==
    First({ id \in DOMAIN us : SqlLower(us[id].name) = PyLower(name) }) # 0

(* User.query.filter(db.func.lower(User.email) == email.lower()).first() *)
EmailTaken(us, email) ==
    First({ id \in DOMAIN us : SqlLower(us[id].email) = PyLower(email) }) # 0

RegisterRequest(data) ==
    [NoReq EXCEPT !.op = "register", !.name = data.name, !.dob = data.dob,
                  !.gender = data.gender, !.face_image = data.face_image]

(* lines 97-113: the fields, the query for the name, strptime *)
register_name_check(p, data) ==
    LET request == RegisterRequest(data)
        name == Strip(data.name)
        dob_str == Strip(data.dob)
        gender == Strip(data.gender)
        face_image == Strip(data.face_image)
    IN  /\ Idle(p)
        /\ IF name = <<>> \/ dob_str = <<>> \/ gender = <<>> \/ face_image = <<>>
           THEN Finish(p, request, ErrorResp(400, "missing_fields"))
           ELSE IF NameTaken(users, name)
           THEN Finish(p, request, ErrorResp(400, "duplicate_name"))
           ELSE IF ~ValidDate(dob_str)
           THEN Finish(p, request, ErrorResp(400, "invalid_dob"))
           ELSE procs' = [procs EXCEPT ![p] = [NoProc EXCEPT !.req = request,
                                                            !.pc = "email_read",
                                                            !.seen = NextId(users)]]
        /\ UNCHANGED <<users, now, issued, calc>>

(* line 115: generate_email reads every stored email once (line 69) *)
register_read_emails(p) ==
    LET me == procs[p] IN
    /\ me.req.op = "register" /\ me.pc = "email_read"
    /\ procs' = [procs EXCEPT ![p].pc = "email_check",
                              ![p].email = generate_email(Strip(me.req.name), users)]
    /\ UNCHANGED <<users, now, issued, calc>>

(* lines 117-119 *)
register_email_check(p) ==
    LET me == procs[p] IN
    /\ me.req.op = "register" /\ me.pc = "email_check"
    /\ IF EmailTaken(users, me.email)
       THEN Finish(p, me.req, ErrorResp(400, "duplicate_email"))
       ELSE Goto(p, "year_read")
    /\ UNCHANGED <<users, now, issued, calc>>

(* line 121, line 38: generate_next_reg_no reads the year from the clock *)
register_read_year(p) ==
    LET me == procs[p] IN
    /\ me.req.op = "register" /\ me.pc = "year_read"
    /\ procs' = [procs EXCEPT ![p].pc = "reg_no_read", ![p].year = now.year]
    /\ UNCHANGED <<users, now, issued, calc>>

(* lines 40-50: the query for the numbers of the year that was read, as   *)
(* the table is when the query runs                                       *)
register_read_reg_no(p) ==
    LET me == procs[p] IN
    /\ me.req.op = "register" /\ me.pc = "reg_no_read"
    /\ procs' = [procs EXCEPT ![p].pc = "commit",
                              ![p].reg_no = generate_next_reg_no(users, me.year)]
    /\ UNCHANGED <<users, now, issued, calc>>

(* lines 123-138: the insert; an IntegrityError of the unique indexes is  *)
(* not caught, the request answers 500 and nothing is stored              *)
register_commit(p) ==
    LET me == procs[p]
        name == Strip(me.req.name)
        user == NewUser(me.reg_no, name, DateOf(Strip(me.req.dob)), Strip(me.req.gender),
                        me.email, Strip(me.req.face_image))
    IN  /\ me.req.op = "register" /\ me.pc = "commit"
        /\ IF UniqueViolation(users, user)
           THEN /\ Finish(p, me.req, ErrorResp(500, "integrity_error"))
                /\ UNCHANGED <<users, issued>>
           ELSE /\ users' = Insert(users, user)
                /\ issued' = issued \cup {me.reg_no}
                /\ Finish(p, me.req, [NoResp EXCEPT !.status = 200, !.reg_no = me.reg_no,
                                                     !.email = me.email, !.name = name])
        /\ UNCHANGED <<now, calc>>

(* a request that passes the checks is taken up while the table, with the *)
(* requests on their way to their insert, holds fewer than capacity rows  *)
(* and the ids and suffixes stay within their bounds                      *)
RegisterNameCheck(inputs, capacity) ==
    \E p \in DOMAIN procs : \E data \in inputs :
        /\ register_name_check(p, data)
        /\ procs'[p].pc # "done" =>
              /\ Len(users) + Cardinality(InFlight("register")) < capacity
              /\ NextId(users) + Cardinality(InFlight("register")) <= MaxId
              /\ SuffixOf(generate_next_reg_no(users, now.year))
                    + Cardinality(InFlight("register")) <= MaxSuffix
RegisterReadEmails == \E p \in DOMAIN procs : register_read_emails(p)
RegisterEmailCheck == \E p \in DOMAIN procs : register_email_check(p)
RegisterReadYear == \E p \in DOMAIN procs : register_read_year(p)
RegisterReadRegNo == \E p \in DOMAIN procs : register_read_reg_no(p)
RegisterCommit == \E p \in DOMAIN procs : register_commit(p)

(* ------------------------------ /recognize ----------------------------- *)
(* line 144 loads the rows into the session of the request; += 1 on line  *)
(* 149 adds 1 to the value that was loaded, and the commit on line 150    *)
(* writes the sum to the row with an UPDATE. The commit expires the       *)
(* loaded object, so the response on lines 151-157 reads the row again.   *)
RecognizeRequest == [NoReq EXCEPT !.op = "recognize"]

(* lines 144-148 *)
recognize_read(p, coin, pick) ==
    /\ Idle(p)
    /\ IF DOMAIN users = {}
       THEN Finish(p, RecognizeRequest, [NoResp EXCEPT !.status = 200, !.message = "no_users"])
       ELSE IF coin
       THEN /\ pick \in DOMAIN users
            /\ users[pick].attendance_count < MaxAttendance
            /\ procs' = [procs EXCEPT ![p] = [NoProc EXCEPT !.req = RecognizeRequest,
                                                             !.pc = "commit",
                                                             !.loaded = users[pick]]]
       ELSE Finish(p, RecognizeRequest,
                   [NoResp EXCEPT !.status = 200, !.message = "not_recognized"])
    /\ UNCHANGED <<users, now, issued, calc>>

(* an UPDATE that writes one more than the sum *)
WriteAttendancePlusOne(us, pos, value) == [us EXCEPT ![pos].attendance_count = value + 1]

(* UPDATE user SET attendance_count = <the sum> WHERE id = <the row> *)
WriteAttendance(us, pos, value) == [us EXCEPT ![pos].attendance_count = value]

(* lines 149-150; an UPDATE that matches no row raises StaleDataError *)
recognize_commit(p) ==
    LET me == procs[p]
        pos == RowOf(users, me.loaded.id)
    IN  /\ me.req.op = "recognize" /\ me.pc = "commit"
        /\ IF pos = 0
           THEN /\ Finish(p, me.req, ErrorResp(500, "stale_data"))
                /\ UNCHANGED users
           ELSE /\ users' = WriteAttendance(users, pos, me.loaded.attendance_count + 1)
                /\ Goto(p, "respond")
        /\ UNCHANGED <<now, issued, calc>>

(* lines 151-157; the reload of a row that is gone raises ObjectDeletedError *)
recognize_respond(p) ==
    LET me == procs[p]
        pos == RowOf(users, me.loaded.id)
    IN  /\ me.req.op = "recognize" /\ me.pc = "respond"
        /\ IF pos = 0
           THEN Finish(p, me.req, ErrorResp(500, "object_deleted"))
           ELSE Finish(p, me.req, [NoResp EXCEPT !.status = 200, !.recognized = TRUE,
                                       !.message = "recognized",
                                       !.reg_no = users[pos].reg_no,
                                       !.name = users[pos].name,
                                       !.attendance_count = users[pos].attendance_count])
        /\ UNCHANGED <<users, now, issued, calc>>

RecognizeRead ==
    \E p \in DOMAIN procs : \E coin \in BOOLEAN : \E pick \in DOMAIN users \cup {0} :
        recognize_read(p, coin, pick)
RecognizeCommit == \E p \in DOMAIN procs : recognize_commit(p)
RecognizeRespond == \E p \in DOMAIN procs : recognize_respond(p)

(* ----------------------- DELETE /admin/user/<reg_no> ------------------- *)
(* a query that forgets its filter: the first row, whatever its number *)
FindAnyUser(us, reg_no) == First(DOMAIN us)

(* User.query.filter_by(reg_no=reg_no).first() *)
FindByRegNo(us, reg_no) == First({ id \in DOMAIN us : us[id].reg_no = reg_no })

DeleteRequest(reg_no) == [NoReq EXCEPT !.op = "delete", !.reg_no = reg_no]

(* lines 178-180 *)
admin_user_read(p, reg_no) ==
    LET pos == FindByRegNo(users, reg_no) IN
    /\ Idle(p)
    /\ IF pos = 0
       THEN Finish(p, DeleteRequest(reg_no), ErrorResp(404, "user_not_found"))
       ELSE procs' = [procs EXCEPT ![p] = [NoProc EXCEPT !.req = DeleteRequest(reg_no),
                                                        !.pc = "delete",
                                                        !.loaded = users[pos]]]
    /\ UNCHANGED <<users, now, issued, calc>>

(* lines 190-193; a DELETE that matches no row is only warned about *)
admin_user_delete(p) ==
    LET me == procs[p] IN
    /\ me.req.op = "delete" /\ me.pc = "delete"
    /\ users' = Remove(users, me.loaded.id)
    /\ Finish(p, me.req, [NoResp EXCEPT !.status = 200, !.message = "deleted"])
    /\ UNCHANGED <<now, issued, calc>>

DeleteRead ==
    \E p \in DOMAIN procs : \E reg_no \in RegNoInputs(users, now.year) :
        admin_user_read(p, reg_no)
DeleteCommit == \E p \in DOMAIN procs : admin_user_delete(p)

(* ------------------------------- /status ------------------------------- *)
(* a rollover that moves the tag and keeps the counter *)
RolloverKeepsLeaves(user, current_month_str) ==
    IF user.last_leave_month # current_month_str
    THEN [user EXCEPT !.last_leave_month = current_month_str]
    ELSE user

(* a rollover that also writes the tag over the name *)
RolloverOverName(user, current_month_str) ==
    IF user.last_leave_month # current_month_str
    THEN [user EXCEPT !.leaves_taken = 0, !.last_leave_month = current_month_str,
                      !.name = current_month_str]
    ELSE user

(* lines 232-235: the monthly rollover, on the object of the session *)
Rollover(user, current_month_str) ==
    IF user.last_leave_month # current_month_str
    THEN [user EXCEPT !.leaves_taken = 0, !.last_leave_month = current_month_str]
    ELSE user

(* the quotient without max(0, .) *)
attendance_percent_unclamped(working_days, leaves_taken) ==
    IF working_days > 0
    THEN [num |-> (working_days - leaves_taken) * 100, den |-> working_days]
    ELSE [num |-> 100, den |-> 1]

(* lines 241-243; the percentage as an exact fraction num/den *)
attendance_percent(working_days, leaves_taken) ==
    IF working_days > 0
    THEN [num |-> Max({0, (working_days - leaves_taken) * 100}), den |-> working_days]
    ELSE [num |-> 100, den |-> 1]

(* round(attendance_percent, 1) and {attendance_percent:.1f}, in tenths *)
Tenths(p) ==
    LET q == (p.num * 10) \div p.den
        r == (p.num * 10) % p.den
    IN  IF 2 * r > p.den THEN q + 1
        ELSE IF 2 * r < p.den THEN q
        ELSE q + (q % 2)

Msg(kind, arg) == [kind |-> kind, arg |-> arg]

(* a chain of elif: the first message that applies and no other *)
advisory_first_message(leaves_taken, p) ==
    IF leaves_taken > 2 THEN <<Msg("alert_leaves", leaves_taken)>>
    ELSE IF p.num < 90 * p.den THEN <<Msg("warning_below_90", Tenths(p))>>
    ELSE IF p.num = 100 * p.den THEN <<Msg("great_job", 0)>>
    ELSE <<Msg("acceptable", 0)>>

(* lines 245-253; a message is its kind and the number its text shows *)
advisory_messages(leaves_taken, p) ==
    LET m1 == IF leaves_taken > 2 THEN <<Msg("alert_leaves", leaves_taken)>> ELSE <<>>
        m2 == IF p.num < 90 * p.den THEN <<Msg("warning_below_90", Tenths(p))>> ELSE <<>>
        m3 == IF p.num = 100 * p.den THEN <<Msg("great_job", 0)>> ELSE <<>>
        messages == m1 \o m2 \o m3
    IN  IF messages = <<>> THEN <<Msg("acceptable", 0)>> ELSE messages

(* a query that forgets its filter: the first row, whatever its email *)
FindAnyEmail(us, email) == First(DOMAIN us)

(* User.query.filter(db.func.lower(User.email) == email).first() *)
FindByEmail(us, email) == First({ id \in DOMAIN us : SqlLower(us[id].email) = email })

StatusRequest(email_input) == [NoReq EXCEPT !.op = "status", !.email = email_input]

(* lines 238-253 for the request of a thread: the percentage and the      *)
(* messages of the leaves its session holds, in the month it read         *)
StatusPercent(me) ==
    attendance_percent(get_working_days_in_month(me.year, me.month), me.loaded.leaves_taken)

StatusMessages(me) == advisory_messages(me.loaded.leaves_taken, StatusPercent(me))

(* lines 219-225: the query for the email *)
check_status_read(p, email_input) ==
    LET request == StatusRequest(email_input)
        email == PyLower(Strip(email_input))
        pos == FindByEmail(users, email)
    IN  /\ Idle(p)
        /\ IF email = <<>>
           THEN Finish(p, request, ErrorResp(400, "no_email"))
           ELSE IF pos = 0
           THEN Finish(p, request, ErrorResp(404, "no_user"))
           ELSE procs' = [procs EXCEPT ![p] = [NoProc EXCEPT !.req = request,
                                                            !.pc = "clock",
                                                            !.loaded = users[pos]]]
        /\ UNCHANGED <<users, now, issued, calc>>

(* lines 227-233: the clock is read once the query has answered, and the *)
(* tag of the loaded row is compared with the tag of that month          *)
check_status_clock(p) ==
    LET me == procs[p]
        current_month_str == MonthTag(now.year, now.month)
    IN  /\ me.req.op = "status" /\ me.pc = "clock"
        /\ procs' = [procs EXCEPT ![p].pc = IF Rollover(me.loaded, current_month_str) # me.loaded
                                            THEN "rollover" ELSE "messages",
                                  ![p].year = now.year, ![p].month = now.month]
        /\ UNCHANGED <<users, now, issued, calc>>

(* lines 234-236: the commit of the rollover; an UPDATE that matches no   *)
(* row raises StaleDataError                                              *)
check_status_rollover(p) ==
    LET me == procs[p]
        pos == RowOf(users, me.loaded.id)
        user == Rollover(me.loaded, MonthTag(me.year, me.month))
    IN  /\ me.req.op = "status" /\ me.pc = "rollover"
        /\ IF pos = 0
           THEN /\ Finish(p, me.req, ErrorResp(500, "stale_data"))
                /\ UNCHANGED users
           ELSE /\ users' = WriteChanged(users, pos, me.loaded, user)
                /\ procs' = [procs EXCEPT ![p].pc = "reload", ![p].rolled = TRUE]
        /\ UNCHANGED <<now, issued, calc>>

(* line 238: the commit has expired the object, the row is read again;    *)
(* the reload of a row that is gone raises ObjectDeletedError             *)
check_status_reload(p) ==
    LET me == procs[p]
        pos == RowOf(users, me.loaded.id)
    IN  /\ me.req.op = "status" /\ me.pc = "reload"
        /\ IF pos = 0
           THEN Finish(p, me.req, ErrorResp(500, "object_deleted"))
           ELSE procs' = [procs EXCEPT ![p].pc = "messages", ![p].loaded = users[pos]]
        /\ UNCHANGED <<users, now, issued, calc>>

(* lines 238-256: the percentage, the messages and their commit; nothing  *)
(* is written when the messages are the ones the row was loaded with      *)
check_status_commit(p) ==
    LET me == procs[p]
        pos == RowOf(users, me.loaded.id)
        user == [me.loaded EXCEPT !.messages = StatusMessages(me)]
    IN  /\ me.req.op = "status" /\ me.pc = "messages"
        /\ IF user = me.loaded
           THEN /\ Goto(p, "respond")
                /\ UNCHANGED users
           ELSE IF pos = 0
           THEN /\ Finish(p, me.req, ErrorResp(500, "stale_data"))
                /\ UNCHANGED users
           ELSE /\ users' = WriteChanged(users, pos, me.loaded, user)
                /\ Goto(p, "respond")
        /\ UNCHANGED <<now, issued, calc>>

(* lines 258-264: user.name is read again after the commit *)
check_status_respond(p) ==
    LET me == procs[p]
        pos == RowOf(users, me.loaded.id)
    IN  /\ me.req.op = "status" /\ me.pc = "respond"
        /\ IF pos = 0
           THEN Finish(p, me.req, ErrorResp(500, "object_deleted"))
           ELSE Finish(p, me.req, [NoResp EXCEPT !.status = 200, !.name = users[pos].name,
                                       !.attendance_count = me.loaded.attendance_count,
                                       !.leaves_taken = me.loaded.leaves_taken,
                                       !.percent_tenths = Tenths(StatusPercent(me)),
                                       !.messages = StatusMessages(me)])
        /\ UNCHANGED <<users, now, issued, calc>>

StatusRead ==
    \E p \in DOMAIN procs : \E email_input \in EmailInputs(users) :
        check_status_read(p, email_input)
StatusClock == \E p \in DOMAIN procs : check_status_clock(p)
StatusRollover == \E p \in DOMAIN procs : check_status_rollover(p)
StatusReload == \E p \in DOMAIN procs : check_status_reload(p)
StatusCommit == \E p \in DOMAIN procs : check_status_commit(p)
StatusRespond == \E p \in DOMAIN procs : check_status_respond(p)

(* ------------------------- the calendar moves on ---------------------- *)
Elapsed == (now.year * 12 + now.month) - (2024 * 12 + 12)

Tick ==
    /\ Elapsed < MaxTicks
    /\ now' = IF now.month = 12 THEN [year |-> now.year + 1, month |-> 1]
              ELSE [now EXCEPT !.month = @ + 1]
    /\ UNCHANGED <<users, issued, calc, procs>>

RegisterSteps ==
    RegisterReadEmails \/ RegisterEmailCheck \/ RegisterReadYear \/ RegisterReadRegNo
      \/ RegisterCommit

RecognizeSteps == RecognizeCommit \/ RecognizeRespond

StatusSteps ==
    StatusRead \/ StatusClock \/ StatusRollover \/ StatusReload \/ StatusCommit
      \/ StatusRespond

(* ---------- requests served one at a time: a single thread ------------- *)
Next ==
    \/ RegisterNameCheck(RegisterInputs, MaxUsers) \/ RegisterSteps
    \/ RecognizeRead \/ RecognizeSteps
    \/ DeleteRead \/ DeleteCommit
    \/ StatusSteps
    \/ Tick

Spec == Init /\ [][Next]_vars

(* ------------- sequences of register requests, over the years ---------- *)
NextRegisterOnly == RegisterNameCheck(RegisterInputs, MaxUsers) \/ RegisterSteps \/ Tick

SpecRegisterOnly == Init /\ [][NextRegisterOnly]_vars

(* ------------- requests served at the same time: MaxThreads ------------ *)
NameCy == <<"C", "y">>

(* two spellings of one name, a second name with the same address, a name *)
(* with an address of its own, a blank name, and a date of birth that     *)
(* does not parse                                                         *)
ConcurrentRegisterInputs ==
    { Form(n, DobGood, GenderF, FaceImg) : n \in {NameAlBo, NameAlBoDup, NameCy, NameBlank} }
      \cup { Form(NameAlCBo, DobSpaceDay, GenderF, FaceImg),
             Form(NameEl, DobBadForm, GenderF, FaceImg) }

(* a name, a second name with a day written as a space and a digit, a  *)
(* date of birth that does not parse, a name of blanks and a request    *)
(* without a face_image                                                 *)
ThreadedRegisterInputs ==
    { Form(NameAlBo, DobGood, GenderF, FaceImg),
      Form(NameAlCBo, DobSpaceDay, GenderF, FaceImg),
      Form(NameEl, DobBadForm, GenderF, FaceImg),
      Form(NameBlank, DobGood, GenderF, FaceImg),
      Form(NameAlBo, DobGood, GenderF, <<>>) }

InitThreaded ==
    /\ users = <<>>
    /\ now = [year |-> 2024, month |-> 12]
    /\ issued = {}
    /\ calc = NoCalc
    /\ procs = [p \in 1..MaxThreads |-> NoProc]

NextThreaded ==
    \/ RegisterNameCheck(ThreadedRegisterInputs, MaxThreadedUsers) \/ RegisterSteps
    \/ RecognizeRead \/ RecognizeSteps
    \/ DeleteRead \/ DeleteCommit
    \/ StatusSteps
    \/ Tick

SpecThreaded == InitThreaded /\ [][NextThreaded]_vars

(* --------------- register requests handled at the same time ------------ *)
NextConcurrentRegister ==
    RegisterNameCheck(ConcurrentRegisterInputs, MaxUsers) \/ RegisterSteps

SpecConcurrentRegister == InitThreaded /\ [][NextConcurrentRegister]_vars

(* ------- the program started on a database file that holds records ------ *)
SeedAlBo(leaves, tag) ==
    [NewUser(FormatRegNo(2024, 1), Strip(NameAlBo), DateOf(DobGood), GenderF,
             LocalPart(NameParts(NameAlBo)) \o Company, FaceImg)
       EXCEPT !.id = 1, !.leaves_taken = leaves, !.last_leave_month = tag]

SeedEl(leaves, tag) ==
    [NewUser(FormatRegNo(2024, 2), Strip(NameEl), DateOf(DobGood), GenderF,
             LocalPart(NameParts(NameEl)) \o Company, FaceImg)
       EXCEPT !.id = 2, !.leaves_taken = leaves, !.last_leave_month = tag]

SeedTags == { NoneValue, MonthTag(2024, 11), MonthTag(2024, 12) }

InitSeeded ==
    /\ \E leaves \in 0..MaxLeaves : \E tag \in SeedTags :
          users = <<SeedAlBo(leaves, tag), SeedEl(leaves, tag)>>
    /\ now = [year |-> 2024, month |-> 12]
    /\ issued = { FormatRegNo(2024, 1), FormatRegNo(2024, 2) }
    /\ calc = NoCalc
    /\ procs = [p \in 1..MaxThreads |-> NoProc]

NextSeeded == RecognizeRead \/ RecognizeSteps \/ StatusSteps \/ Tick

SpecSeeded == InitSeeded /\ [][NextSeeded]_vars

(* ---- register and delete requests handled at the same time, over a ---- *)
(* ---- change of year, on a database file that holds two records     ---- *)
InitStored ==
    /\ users = <<SeedAlBo(0, NoneValue), SeedEl(0, NoneValue)>>
    /\ now = [year |-> 2024, month |-> 12]
    /\ issued = { FormatRegNo(2024, 1), FormatRegNo(2024, 2) }
    /\ calc = NoCalc
    /\ procs = [p \in 1..MaxThreads |-> NoProc]

StoredRegisterInputs == { Form(NameCy, DobGood, GenderF, FaceImg) }

(* one register request at a time, next to the delete requests: a request *)
(* that passes the checks is taken up while no other is on its way and    *)
(* the rows, ids and suffixes stay within MaxStored                       *)
RegisterStoredNameCheck ==
    \E p \in DOMAIN procs : \E data \in StoredRegisterInputs :
        /\ register_name_check(p, data)
        /\ procs'[p].pc # "done" =>
              /\ InFlight("register") = {}
              /\ Len(users) < MaxStored
              /\ NextId(users) <= MaxStored
              /\ SuffixOf(generate_next_reg_no(users, now.year)) <= MaxStored

NextStored ==
    \/ RegisterStoredNameCheck \/ RegisterSteps
    \/ DeleteRead \/ DeleteCommit
    \/ Tick

SpecStored == InitStored /\ [][NextStored]_vars

(* ---- all four requests handled at the same time on a database file ---- *)
(* ---- that holds one record, next to which a second is registered   ---- *)
(* ---- and deleted                                                   ---- *)
InitOneStored ==
    /\ users = <<SeedAlBo(0, NoneValue)>>
    /\ now = [year |-> 2024, month |-> 12]
    /\ issued = { FormatRegNo(2024, 1) }
    /\ calc = NoCalc
    /\ procs = [p \in 1..MaxThreads |-> NoProc]

NextOneStored ==
    \/ RegisterStoredNameCheck \/ RegisterSteps
    \/ RecognizeRead \/ RecognizeSteps
    \/ DeleteRead \/ DeleteCommit
    \/ StatusSteps

SpecOneStored == InitOneStored /\ [][NextOneStored]_vars

(* ---- register and delete requests handled at the same time, for    ---- *)
(* ---- names that give the same address                              ---- *)
NameAlDBo == <<"A", "L", " ", "d", " ", "B", "O">>

EmailCounterInputs ==
    { Form(n, DobGood, GenderF, FaceImg) : n \in {NameAlBo, NameAlCBo, NameAlDBo} }

(* one register request at a time, next to the delete requests: a request *)
(* that passes the checks is taken up while no other is on its way, the   *)
(* table holds fewer than MaxStored rows and the ids and suffixes stay    *)
(* within MaxStored + 1                                                   *)
RegisterEmailCounterNameCheck ==
    \E p \in DOMAIN procs : \E data \in EmailCounterInputs :
        /\ register_name_check(p, data)
        /\ procs'[p].pc # "done" =>
              /\ InFlight("register") = {}
              /\ Len(users) < MaxStored
              /\ NextId(users) <= MaxStored + 1
              /\ SuffixOf(generate_next_reg_no(users, now.year)) <= MaxStored + 1

NextEmailCounter ==
    \/ RegisterEmailCounterNameCheck \/ RegisterSteps
    \/ DeleteRead \/ DeleteCommit

SpecEmailCounter == InitThreaded /\ [][NextEmailCounter]_vars

(* -------------- recognize requests handled at the same time ------------ *)
(* MaxRecognizeProcs threads, each serving one recognize request          *)
InitConcurrentRecognize ==
    /\ users = <<SeedAlBo(0, NoneValue), SeedEl(0, NoneValue)>>
    /\ now = [year |-> 2024, month |-> 12]
    /\ issued = { FormatRegNo(2024, 1), FormatRegNo(2024, 2) }
    /\ calc = NoCalc
    /\ procs = [p \in 1..MaxRecognizeProcs |-> NoProc]

RecognizeReadOnce ==
    \E p \in DOMAIN procs : \E coin \in BOOLEAN : \E pick \in DOMAIN users \cup {0} :
        /\ procs[p].req.op = "none"
        /\ recognize_read(p, coin, pick)

NextConcurrentRecognize == RecognizeReadOnce \/ RecognizeSteps

SpecConcurrentRecognize == InitConcurrentRecognize /\ [][NextConcurrentRecognize]_vars

(* ---- the status evaluator's arithmetic, on its own: lines 238-253 ----- *)
(* of check_status applied to every working_days and leaves_taken of a    *)
(* bounded range                                                          *)
InitStatusEval ==
    /\ users = <<>>
    /\ now = [year |-> 2024, month |-> 12]
    /\ issued = {}
    /\ \E working_days \in 0..MaxWorkingDays : \E leaves_taken \in 0..MaxLeavesTaken :
          calc = [NoCalc EXCEPT !.fn = "status_input", !.working_days = working_days,
                                !.leaves_taken = leaves_taken]
    /\ procs = <<>>

EvaluateStatus ==
    /\ calc.fn = "status_input"
    /\ LET percent == attendance_percent(calc.working_days, calc.leaves_taken) IN
       calc' = [calc EXCEPT !.fn = "status", !.percent = percent,
                            !.messages = advisory_messages(calc.leaves_taken, percent)]
    /\ UNCHANGED <<users, now, issued, procs>>

SpecStatusEval == InitStatusEval /\ [][EvaluateStatus]_vars

(* ---- get_working_days_in_month on its own, applied to every month ----- *)
(* of a full cycle of 400 Gregorian years                                 *)
InitCalendar ==
    /\ users = <<>>
    /\ now = [year |-> 2024, month |-> 12]
    /\ issued = {}
    /\ \E year \in MinYear..MaxYear : \E month \in 1..12 :
          calc = [NoCalc EXCEPT !.fn = "calendar_input", !.year = year, !.month = month]
    /\ procs = <<>>

EvaluateWorkingDays ==
    /\ calc.fn = "calendar_input"
    /\ calc' = [calc EXCEPT !.fn = "working_days",
                            !.working_days = get_working_days_in_month(calc.year, calc.month)]
    /\ UNCHANGED <<users, now, issued, procs>>

SpecCalendar == InitCalendar /\ [][EvaluateWorkingDays]_vars

(* ============================== claims ================================= *)
CurrentTag == MonthTag(now.year, now.month)

(* thread p takes a step *)
Stepped(p) == procs'[p] # procs[p]

(* thread p takes up a request of a kind: the first round trip of its handler *)
Starts(p, op) == Idle(p) /\ Stepped(p) /\ procs'[p].req.op = op

(* thread p takes a later step of the handler of a request, from a position *)
StepsFrom(p, op, pc) == procs[p].req.op = op /\ procs[p].pc = pc /\ Stepped(p)

(* the handler of thread p returns in this step *)
Returns(p) == Stepped(p) /\ procs'[p].pc = "done"

(* thread p has answered a request of a kind with a status *)
Answered(p, op, status) ==
    procs[p].pc = "done" /\ procs[p].req.op = op /\ procs[p].resp.status = status

(* two names equal after trimming, ignoring case *)
SameNameIgnoringCase(a, b) == PyLower(Strip(a)) = PyLower(Strip(b))

(* an address equal, ignoring case, to the address of a stored user *)
EmailStored(us, e) == \E i \in DOMAIN us : PyLower(us[i].email) = PyLower(e)

RegYear(reg_no) == ParseInt(SplitOn(reg_no, "-")[1])

(* C1: with requests served one at a time, a register request whose        *)
(* trimmed name equals a stored name ignoring case returns an error and    *)
(* leaves the stored records as they were.                                 *)
C1_DuplicateNameRejected ==
    [][ \A p \in DOMAIN procs :
          (Starts(p, "register") /\ \E i \in DOMAIN users :
                                       SameNameIgnoringCase(procs'[p].req.name, users[i].name))
          => (procs'[p].pc = "done" /\ procs'[p].resp.status >= 400 /\ users' = users) ]_vars

(* C2: with requests served one at a time, no two stored users have       *)
(* emails equal ignoring case, and every address generate_email produces  *)
(* for a request differs, ignoring case, from every stored email.         *)
C2_EmailsUnique ==
    /\ \A i, j \in DOMAIN users :
          i # j => PyLower(users[i].email) # PyLower(users[j].email)
    /\ \A n \in Names :
          LET e == generate_email(Strip(n), users) IN
          e # <<>> => ~EmailStored(users, e)

C2_Witness ==
    \E i, j \in DOMAIN users :
        /\ i # j
        /\ ~SameNameIgnoringCase(users[i].name, users[j].name)
        /\ NameParts(users[i].name) # <<>> /\ NameParts(users[j].name) # <<>>
        /\ LocalPart(NameParts(users[i].name)) = LocalPart(NameParts(users[j].name))

(* C3: in a sequence of register requests served one at a time, the number *)
(* the generator hands out in a year has a suffix strictly greater than    *)
(* the suffix of every number handed out earlier in that year, so no       *)
(* number repeats.                                                         *)
C3_RegNoIncreasing ==
    \A r \in issued :
        SuffixOf(r) < SuffixOf(generate_next_reg_no(users, RegYear(r)))

C3_Witness ==
    \E p \in DOMAIN procs :
        /\ Answered(p, "register", 200)
        /\ \E r \in issued : /\ r # procs[p].resp.reg_no
                             /\ RegYear(r) = RegYear(procs[p].resp.reg_no)
                             /\ SuffixOf(r) < SuffixOf(procs[p].resp.reg_no)

(* C4: a registration number that was assigned once is never assigned to a *)
(* later registration, also after its user was deleted.                    *)
C4_RegNoNeverReassigned ==
    [][ \A p \in DOMAIN procs :
          (StepsFrom(p, "register", "commit") /\ procs'[p].resp.status = 200)
          => procs'[p].resp.reg_no \notin issued ]_vars

(* C5: with requests served one at a time, the attendance_count of a       *)
(* stored user never decreases; the only step that changes it is the       *)
(* commit of a recognize request for that user, which adds 1, and the      *)
(* request then reports that user with the new count.                      *)
C5_AttendanceOnlyByRecognition ==
    [][ /\ \A i \in DOMAIN users : \A j \in DOMAIN users' :
              users[i].id = users'[j].id =>
                LET before == users[i].attendance_count
                    after == users'[j].attendance_count
                    committing == \E p \in DOMAIN procs :
                                     /\ StepsFrom(p, "recognize", "commit")
                                     /\ procs[p].loaded.id = users[i].id
                IN  /\ after >= before
                    /\ after # before => committing
                    /\ committing => after = before + 1
        /\ \A p \in DOMAIN procs :
              /\ StepsFrom(p, "recognize", "commit") => procs'[p].pc = "respond"
              /\ StepsFrom(p, "recognize", "respond")
                    => /\ procs'[p].resp.recognized
                       /\ procs'[p].resp.reg_no = procs[p].loaded.reg_no
                       /\ procs'[p].resp.attendance_count
                             = procs[p].loaded.attendance_count + 1
                       /\ users' = users ]_vars

C5_Witness ==
    \E p \in DOMAIN procs :
        /\ Answered(p, "recognize", 200) /\ procs[p].resp.recognized
        /\ Len(users) = 2
        /\ \E i, j \in DOMAIN users :
              /\ users[i].reg_no = procs[p].resp.reg_no /\ users[i].attendance_count = 1
              /\ i # j /\ users[j].attendance_count = 0

(* C6: a recognize request that answers recognized=false changes nothing;  *)
(* one that answers recognized=true adds 1 to attendance_count of the user *)
(* it names and changes nothing else.                                      *)
C6_RecognizeFrame ==
    [][ \A p \in DOMAIN procs :
          /\ (Starts(p, "recognize") \/ StepsFrom(p, "recognize", "respond"))
                => users' = users
          /\ StepsFrom(p, "recognize", "commit")
                => \E i \in DOMAIN users :
                      /\ users[i].id = procs[p].loaded.id
                      /\ users' = [users EXCEPT ![i].attendance_count = @ + 1]
          /\ (StepsFrom(p, "recognize", "respond") /\ procs'[p].resp.recognized)
                => /\ procs'[p].resp.reg_no = procs[p].loaded.reg_no
                   /\ procs'[p].resp.name = procs[p].loaded.name ]_vars

(* the stored user a status request is about *)
StatusTarget(us, r, i) ==
    /\ r.op = "status"
    /\ Strip(r.email) # <<>>
    /\ PyLower(us[i].email) = PyLower(Strip(r.email))

(* C7: a status check of a stored user loads the user's row; when the      *)
(* last_leave_month it loaded is not the tag of the month it then reads    *)
(* from the clock it takes the rollover, which sets leaves_taken to 0 and  *)
(* the tag to that month's before the percentage is computed: the row read *)
(* for the computation holds 0 leaves, and the response reports            *)
(* leaves_taken = 0 and 100 percent.                                       *)
C7_RolloverResets ==
    [][ \A p \in DOMAIN procs :
          /\ (Starts(p, "status") /\ \E i \in DOMAIN users :
                                        StatusTarget(users, procs'[p].req, i))
                => /\ procs'[p].pc = "clock"
                   /\ StatusTarget(<<procs'[p].loaded>>, procs'[p].req, 1)
          /\ (StepsFrom(p, "status", "clock")
                 /\ procs[p].loaded.last_leave_month # CurrentTag)
                => /\ procs'[p].pc = "rollover"
                   /\ procs'[p].year = now.year /\ procs'[p].month = now.month
          /\ (StepsFrom(p, "status", "rollover") /\ procs'[p].pc # "done")
                => LET pos == RowOf(users', procs[p].loaded.id) IN
                   /\ pos # 0
                   /\ users'[pos].leaves_taken = 0
                   /\ users'[pos].last_leave_month = MonthTag(procs[p].year, procs[p].month)
                   /\ procs'[p].pc = "reload" /\ procs'[p].rolled
          /\ (StepsFrom(p, "status", "reload") /\ procs'[p].pc # "done")
                => procs'[p].loaded.leaves_taken = 0
          /\ (StepsFrom(p, "status", "respond") /\ procs[p].rolled
                /\ procs'[p].resp.status = 200)
                => /\ procs'[p].resp.leaves_taken = 0
                   /\ procs'[p].resp.percent_tenths = 1000 ]_vars

(* both seeded records held the same counter: one was checked and reset,   *)
(* the other still shows the value both started with                       *)
C7_Witness ==
    \E p \in DOMAIN procs :
        /\ Answered(p, "status", 200) /\ procs[p].resp.leaves_taken = 0
        /\ Len(users) = 2
        /\ procs[p].resp.name = users[1].name
        /\ users[1].leaves_taken = 0 /\ users[1].last_leave_month = CurrentTag
        /\ users[2].leaves_taken = MaxLeaves /\ users[2].last_leave_month # CurrentTag

(* C8: a delete of a registration number no stored user has returns 404    *)
(* and leaves the store unchanged, also when the number was deleted before.*)
C8_DeleteUnknownNotFound ==
    [][ \A p \in DOMAIN procs :
          (Starts(p, "delete") /\ \A i \in DOMAIN users :
                                     users[i].reg_no # procs'[p].req.reg_no)
          => (procs'[p].pc = "done" /\ procs'[p].resp.status = 404 /\ users' = users) ]_vars

(* the second delete of a number whose user was deleted *)
C8_Witness ==
    \E p \in DOMAIN procs :
        /\ Answered(p, "delete", 404)
        /\ procs[p].req.reg_no \in issued
        /\ \A i \in DOMAIN users : users[i].reg_no # procs[p].req.reg_no

(* C9: a register request whose name is not empty and normalizes to no     *)
(* token fails with a validation error and creates no record.              *)
C9_EmptyNormalizedNameRejected ==
    [][ \A p \in DOMAIN procs :
          ( /\ Returns(p) /\ procs'[p].req.op = "register"
            /\ Strip(procs'[p].req.name) # <<>> /\ NameParts(procs'[p].req.name) = <<>> )
          => (procs'[p].resp.status = 400 /\ users' = users) ]_vars

(* C10: for a name with tokens, register computes the base address when no *)
(* stored email equals it ignoring case, and otherwise the base with the   *)
(* smallest k >= 1 appended to the local part that makes it differ,        *)
(* ignoring case, from every stored email (the emails are those of the     *)
(* query of line 69); a successful request stores and returns that         *)
(* address. On every table a request reads, the generator gives that      *)
(* address for every name of the inputs, one-token names included.         *)
WithCounter(name, k) == LocalPart(NameParts(name)) \o ToStr(k) \o Company

ExpectedEmail(us, name) ==
    LET base == LocalPart(NameParts(name)) \o Company IN
    IF ~EmailStored(us, base) THEN base
    ELSE WithCounter(name, CHOOSE k \in 1..(Len(us) + 1) :
                              /\ ~EmailStored(us, WithCounter(name, k))
                              /\ \A j \in 1..(k - 1) : EmailStored(us, WithCounter(name, j)))

Kinds(messages) == [i \in DOMAIN messages |-> messages[i].kind]

(* the place of a kind in the evaluation order *)
Rank(kind) ==
    IF kind = "alert_leaves" THEN 1
    ELSE IF kind = "warning_below_90" THEN 2
    ELSE IF kind = "great_job" THEN 3
    ELSE 4

(* C11: for every leaves_taken and every computed percentage the message  *)
(* list is not empty; it holds the alert exactly when leaves_taken > 2,   *)
(* the warning exactly when the percentage is below 90 and the            *)
(* congratulation exactly when it is 100, in that order; the "acceptable" *)
(* message is there exactly when none of the three applies, and then      *)
(* alone. 21 working days and 3 leaves give the alert, then the warning.  *)
C11_AdvisoryMessages ==
    calc.fn = "status" =>
        LET kinds == Kinds(calc.messages)
            has(kind) == \E i \in DOMAIN kinds : kinds[i] = kind
            alert == calc.leaves_taken > 2
            warning == calc.percent.num < 90 * calc.percent.den
            great == calc.percent.num = 100 * calc.percent.den
        IN  /\ calc.messages # <<>>
            /\ has("alert_leaves") <=> alert
            /\ has("warning_below_90") <=> warning
            /\ has("great_job") <=> great
            /\ has("acceptable") <=> ~(alert \/ warning \/ great)
            /\ has("acceptable") => Len(kinds) = 1
            /\ \A i, j \in DOMAIN kinds : i < j => Rank(kinds[i]) < Rank(kinds[j])
            /\ \A i \in DOMAIN kinds :
                  /\ kinds[i] = "alert_leaves" => calc.messages[i].arg = calc.leaves_taken
                  /\ kinds[i] = "warning_below_90" => calc.messages[i].arg = Tenths(calc.percent)
            /\ (calc.working_days = 21 /\ calc.leaves_taken = 3)
                  => calc.messages = <<Msg("alert_leaves", 3), Msg("warning_below_90", 857)>>

C11_Witness ==
    /\ calc.fn = "status"
    /\ calc.working_days = 21 /\ calc.leaves_taken = 3
    /\ Kinds(calc.messages) = <<"alert_leaves", "warning_below_90">>

(* C12: for working_days > 0 and leaves_taken >= 0 the percentage is      *)
(* max(0, (working_days - leaves_taken) * 100 / working_days): between 0  *)
(* and 100, 100 exactly when leaves_taken = 0, and 0 whenever             *)
(* leaves_taken >= working_days; for working_days = 0 it is 100.          *)
C12_PercentageFormula ==
    calc.fn = "status" =>
        LET working_days == calc.working_days
            leaves_taken == calc.leaves_taken
            percent == calc.percent
        IN  /\ percent.den > 0
            /\ working_days > 0 =>
                  /\ IF leaves_taken <= working_days
                     THEN percent.num * working_days
                            = percent.den * (working_days - leaves_taken) * 100
                     ELSE percent.num = 0
                  /\ 0 <= percent.num /\ percent.num <= 100 * percent.den
                  /\ (percent.num = 100 * percent.den) <=> (leaves_taken = 0)
                  /\ leaves_taken >= working_days => percent.num = 0
            /\ working_days = 0 => percent.num = 100 * percent.den

C12_Witness ==
    /\ calc.fn = "status"
    /\ calc.working_days > 0 /\ calc.leaves_taken > calc.working_days
    /\ calc.percent.num = 0

(* the days of a month after its first four weeks *)
DaysAfterFourWeeks(year, month) == 29..DaysInMonth(year, month)

(* C13: get_working_days_in_month(year, month) is the number of days of   *)
(* the month that fall on Monday to Friday: 20 in the first four weeks    *)
(* plus those among the days after the 28th; it is 21 for February 2024   *)
(* and between 20 and 23 for every month, so never 0.                     *)
C13_WorkingDays ==
    calc.fn = "working_days" =>
        /\ calc.working_days \in 20..23
        /\ calc.working_days # 0
        /\ calc.working_days
              = 20 + Cardinality({ day \in DaysAfterFourWeeks(calc.year, calc.month) :
                                     Weekday(calc.year, calc.month, day - 28) < 5 })
        /\ (calc.year = 2024 /\ calc.month = 2) => calc.working_days = 21
        /\ (calc.month = 2 /\ ~IsLeap(calc.year)) => calc.working_days = 20

C13_Witness ==
    /\ calc.fn = "working_days"
    /\ calc.year = 2024 /\ calc.month = 2
    /\ calc.working_days = 21

(* a field of the request is missing: empty once trimmed *)
MissingField(r) ==
    Strip(r.name) = <<>> \/ Strip(r.dob) = <<>> \/ Strip(r.gender) = <<>>
      \/ Strip(r.face_image) = <<>>

(* the dates of birth of the inputs that are no date in YYYY-MM-DD form *)
BadDobs == { DobBadForm, DobBadDay }

(* C14: a register request with a missing field or with a date of birth   *)
(* that is no YYYY-MM-DD date, and a status request with no email or with *)
(* an email no stored user has, return an error response; every register  *)
(* or status request that returns such an error leaves every stored       *)
(* record as it was and creates none.                                     *)
C14_RejectedRequestsChangeNothing ==
    [][ \A p \in DOMAIN procs :
          LET request == procs'[p].req
              response == procs'[p].resp
          IN  /\ (Starts(p, "register") /\ MissingField(request))
                    => /\ procs'[p].pc = "done"
                       /\ response.status = 400 /\ response.error = "missing_fields"
              /\ (Starts(p, "register") /\ ~MissingField(request)
                     /\ Strip(request.dob) \in BadDobs)
                    => /\ procs'[p].pc = "done" /\ response.status = 400
                       /\ response.error \in {"invalid_dob", "duplicate_name"}
              /\ (Starts(p, "status") /\ Strip(request.email) = <<>>)
                    => /\ procs'[p].pc = "done"
                       /\ response.status = 400 /\ response.error = "no_email"
              /\ (Starts(p, "status") /\ Strip(request.email) # <<>>
                     /\ ~EmailStored(users, Strip(request.email)))
                    => /\ procs'[p].pc = "done"
                       /\ response.status = 404 /\ response.error = "no_user"
              /\ (Returns(p) /\ request.op \in {"register", "status"}
                     /\ response.status \in {400, 404})
                    => (users' = users /\ now' = now /\ issued' = issued) ]_vars

(* a request with a date of birth that is no date and a request without *)
(* a face_image were both rejected while a recognized user is stored    *)
C14_Witness ==
    \E p, q \in DOMAIN procs :
        /\ Answered(p, "register", 400) /\ procs[p].resp.error = "invalid_dob"
        /\ Strip(procs[p].req.dob) = DobBadForm
        /\ Answered(q, "register", 400) /\ procs[q].resp.error = "missing_fields"
        /\ MissingField(procs[q].req) /\ procs[q].req.name = NameAlBo
        /\ Len(users) = 1 /\ users[1].attendance_count = 1
        /\ users[1].name = Strip(NameAlBo)

(* the fields of a record that identify the person *)
Identity(user) == <<user.reg_no, user.name, user.dob, user.gender, user.email>>

(* C15: reg_no, name, dob, gender and email of a stored user are the      *)
(* values of the register request that created the record, and no step of *)
(* any request changes any of them while the record is stored; a record   *)
(* leaves the table only in the DELETE of a delete request.               *)
C15_IdentityFieldsKept ==
    [][ /\ \A i \in DOMAIN users : \A j \in DOMAIN users' :
              users[i].id = users'[j].id => Identity(users'[j]) = Identity(users[i])
        /\ \A p \in DOMAIN procs :
              (StepsFrom(p, "register", "commit") /\ procs'[p].resp.status = 200)
              => /\ Len(users') = Len(users) + 1
                 /\ SubSeq(users', 1, Len(users)) = users
                 /\ Identity(users'[Len(users')])
                       = <<procs'[p].resp.reg_no, Strip(procs[p].req.name),
                           DateOf(Strip(procs[p].req.dob)), Strip(procs[p].req.gender),
                           procs'[p].resp.email>>
        /\ (\E i \in DOMAIN users : RowOf(users', users[i].id) = 0)
              => \E p \in DOMAIN procs : StepsFrom(p, "delete", "delete") ]_vars

(* a second user was registered and deleted again next to a record that *)
(* was recognized once and rolled over by a status check                *)
C15_Witness ==
    \E p, q \in DOMAIN procs :
        /\ Answered(p, "register", 200) /\ Strip(procs[p].req.name) = NameCy
        /\ Answered(q, "delete", 200) /\ procs[q].req.reg_no = procs[p].resp.reg_no
        /\ Len(users) = 1
        /\ users[1].attendance_count = 1 /\ users[1].last_leave_month = CurrentTag
        /\ Identity(users[1]) = Identity(SeedAlBo(0, NoneValue))

(* the row a status request loaded, where it is now *)
StatusRow(p) == RowOf(users, procs[p].loaded.id)

(* C16: the rollover happens at most once per user and month. No step of  *)
(* a status check changes leaves_taken or last_leave_month of a user      *)
(* whose tag is the tag of the current month; a status check that loaded  *)
(* that tag does not take the rollover; and when a status check succeeds the *)
(* user's tag is the tag of the month in which the check read the clock,  *)
(* or of the month in which it answers.                                   *)
C16_RolloverOncePerMonth ==
    [][ \A p \in DOMAIN procs :
          /\ (procs[p].req.op = "status" /\ Stepped(p))
                => \A i \in DOMAIN users :
                      users[i].last_leave_month = CurrentTag
                        => /\ users'[i].leaves_taken = users[i].leaves_taken
                           /\ users'[i].last_leave_month = users[i].last_leave_month
          /\ (StepsFrom(p, "status", "clock")
                 /\ procs[p].loaded.last_leave_month = CurrentTag)
                => procs'[p].pc = "messages"
          /\ (StepsFrom(p, "status", "respond") /\ procs'[p].resp.status = 200)
                => users[StatusRow(p)].last_leave_month
                      \in { MonthTag(procs[p].year, procs[p].month), CurrentTag } ]_vars

(* C17: register's check-then-insert is not atomic. A record is stored    *)
(* under a name equal, ignoring case, to the name of a stored record only *)
(* when its request checked the name before that record was committed,    *)
(* and a state with two such records is reachable (C17_Witness).          *)
C17_DuplicateNamesOnlyByRace ==
    [][ \A p \in DOMAIN procs :
          (StepsFrom(p, "register", "commit") /\ procs'[p].resp.status = 200)
          => \A i \in DOMAIN users :
                SameNameIgnoringCase(users[i].name, procs[p].req.name)
                  => users[i].id >= procs[p].seen ]_vars

C17_Witness ==
    /\ Len(users) = 2
    /\ users[1].name # users[2].name
    /\ SameNameIgnoringCase(users[1].name, users[2].name)
    /\ \A p \in DOMAIN procs : Answered(p, "register", 200)

(* the requests that reported the user of a registration number *)
ReportedFor(reg_no) ==
    { p \in DOMAIN procs : procs[p].resp.recognized /\ procs[p].resp.reg_no = reg_no }

AllDone == \A p \in DOMAIN procs : procs[p].pc = "done"

(* C18: when the interleaved recognize requests have all completed, the   *)
(* attendance_count of every user, 0 before, is the number of requests    *)
(* that reported that user as recognized: no increment is lost.           *)
C18_NoIncrementLost ==
    AllDone => \A i \in DOMAIN users :
                  users[i].attendance_count = Cardinality(ReportedFor(users[i].reg_no))

(* C19: starting from an empty store, no step of a register, recognize,   *)
(* status or delete request makes leaves_taken other than 0; so every     *)
(* successful status check reports 100 percent and exactly the            *)
(* congratulation, and the alert, the warning and the "acceptable"        *)
(* message are never returned nor stored.                                 *)
C19_LeavesAlwaysZero ==
    /\ \A i \in DOMAIN users :
          /\ users[i].leaves_taken = 0
          /\ users[i].messages \in { <<>>, <<Msg("great_job", 0)>> }
    /\ \A p \in DOMAIN procs :
          /\ procs[p].loaded.leaves_taken = 0
          /\ Answered(p, "status", 200)
                => /\ procs[p].resp.leaves_taken = 0
                   /\ procs[p].resp.percent_tenths = 1000
                   /\ procs[p].resp.messages = <<Msg("great_job", 0)>>
          /\ procs[p].resp.status # 200 => procs[p].resp.messages = <<>>

C19_Witness ==
    \E p \in DOMAIN procs :
        /\ Answered(p, "status", 200)
        /\ procs[p].resp.messages = <<Msg("great_job", 0)>>
        /\ procs[p].resp.attendance_count = 1
        /\ Elapsed = 1
        /\ Len(users) = 1 /\ users[1].last_leave_month = CurrentTag

(* no two rows with the same reg_no or the same email *)
UniqueColumns(us) ==
    \A i, j \in DOMAIN us :
        i # j => (us[i].reg_no # us[j].reg_no /\ us[i].email # us[j].email)

(* C20: under every interleaving of register requests no two stored       *)
(* records have the same reg_no or the same email; an insert with the     *)
(* number or the email of a stored record is rejected by the unique index *)
(* and stores nothing, every other insert adds its record.                *)
C20_UniqueUnderInterleaving ==
    [][ /\ UniqueColumns(users')
        /\ \A p \in DOMAIN procs :
              StepsFrom(p, "register", "commit") =>
                IF \E i \in DOMAIN users : \/ users[i].reg_no = procs[p].reg_no
                                           \/ users[i].email = procs[p].email
                THEN /\ procs'[p].resp.status = 500
                     /\ procs'[p].resp.error = "integrity_error"
                     /\ users' = users
                ELSE /\ procs'[p].resp.status = 200
                     /\ Len(users') = Len(users) + 1
                     /\ users'[Len(users')].reg_no = procs[p].reg_no
                     /\ users'[Len(users')].email = procs[p].email ]_vars

(* two requests with different names and different emails computed the   *)
(* same number; the first is stored, the second was rejected             *)
C20_Witness ==
    \E p, q \in DOMAIN procs :
        /\ Answered(p, "register", 200) /\ Answered(q, "register", 500)
        /\ Len(users) = 1 /\ users[1].reg_no = procs[p].resp.reg_no
        /\ users[1].name # Strip(procs[q].req.name)
        /\ NameParts(procs[q].req.name) # <<>>
        /\ users[1].email # LocalPart(NameParts(procs[q].req.name)) \o Company
====
